---- MODULE Spec2Model ----
(***************************************************************************)
(* Task/folder REST API (jcordovadevit-Dev/tasklist-deployment).           *)
(* The store is the two Mongoose collections (tasks, folders); every       *)
(* action is one awaited storage call of a request handler of             *)
(* src/controllers, with the synchronous code around it; requests whose    *)
(* handlers await several calls are in flight between them, and the calls  *)
(* of the requests in flight interleave.                                   *)
(***************************************************************************)
EXTENDS Integers, Sequences, FiniteSets, Bags, TLC

\* ------------------------------------------------------------------ bounds
MaxId == 3      \* number of ObjectIds the store may hand out
MaxOps == 4     \* number of requests in a run
MaxInFlight == 2 \* number of requests between two of their storage calls

\* ------------------------------------------------------- values and inputs
Users == {"u1", "u2"}

\* an absent request field (JavaScript undefined), for string-valued fields
Undef == "undefined"
\* id-valued fields: null, a string that is no ObjectId, an absent field,
\* and a well-formed ObjectId that identifies no record
NullId == -1
BadId == -2
UndefId == -3
NoSuchId == 0
\* date-valued fields: null and the time value of an invalid Date (NaN)
NullDate == -1
NaNDate == -2

AllowedStatus == {"Pending", "Working", "Completed"}
TaskStatusEnum == {"Pending", "Completed"}

\* JavaScript truthiness of a string-valued / id-valued request field
Truthy(s) == s # Undef /\ s # ""
TruthyId(i) == i # UndefId /\ i # NullId

\* mongoose.isValidObjectId / mongoose.Types.ObjectId.isValid
isValidObjectId(i) == i >= 0
isValidId(i) == i >= 0

\* new Date(s).getTime(), in seconds
DateParse(s) ==
    IF s = "2025-01-01" THEN 1735689600
    ELSE NaNDate

\* ------------------------------------------------------------------- state
VARIABLES tasks,     \* Task collection: _id -> [title, dueDate, status, folder, user]
          folders,   \* Folder collection: _id -> [name, user, tasks]
          nextId,    \* next ObjectId to be generated
          nops,      \* requests that have arrived so far
          inflight,  \* bag of the requests between two of their storage calls
          last,      \* the request that has just been answered, and its status
          tasks0,    \* Task collection before that request, if it ran alone
          folders0,  \* Folder collection before that request, if it ran alone
          procs      \* the two requests in flight whose storage calls interleave

vars == <<tasks, folders, nextId, nops, inflight, last, tasks0, folders0, procs>>

\* ------------------------------------------------------ collection helpers
Insert(f, k, v) == [x \in (DOMAIN f) \cup {k} |-> IF x = k THEN v ELSE f[x]]
Remove(f, S) == [x \in (DOMAIN f) \ S |-> f[x]]
EmptyColl == [x \in {} |-> 0]

RECURSIVE Pull(_, _)
Pull(s, v) ==
    IF s = <<>> THEN <<>>
    ELSE IF Head(s) = v THEN Pull(Tail(s), v)
    ELSE <<Head(s)>> \o Pull(Tail(s), v)

RECURSIVE SortedSeq(_)
SortedSeq(S) ==
    IF S = {} THEN <<>>
    ELSE LET m == CHOOSE x \in S : \A y \in S : x <= y
         IN <<m>> \o SortedSeq(S \ {m})

\* Task.find / findOne filters
TaskOwned(T, id, u) == id \in DOMAIN T /\ T[id].user = u
FolderOwned(F, id, u) == id \in DOMAIN F /\ F[id].user = u
TasksOfFolder(T, fid, u) == {t \in DOMAIN T : T[t].folder = fid /\ T[t].user = u}
TaskInFolder(T, tid, fid, u) ==
    tid \in DOMAIN T /\ T[tid].folder = fid /\ T[tid].user = u

\* what one step of a handler leaves: the store, and either the response
\* (pc = "done") or the storage call the handler awaits next; new is the _id
\* of the Task the handler has created
Res(T, F, n, c) ==
    [t |-> T, f |-> F, n |-> n, code |-> c, pc |-> "done", new |-> UndefId]
Await(T, F, n, pc, new) ==
    [t |-> T, f |-> F, n |-> n, code |-> 0, pc |-> pc, new |-> new]

\* request body: every handler reads the fields it destructures
Body(ty, ti, st, du, fo, us, na) ==
    [type |-> ty, title |-> ti, status |-> st, dueDate |-> du,
     folder |-> fo, user |-> us, name |-> na]
EmptyBody == Body(Undef, Undef, Undef, Undef, UndefId, Undef, Undef)

\* ------------------------------------------------- Mongoose model writes
\* Task.create: the schema's validators run before the insert
\* (title required, status in the schema enum, dueDate castable to Date)
TaskCreateValid(title, due, status) ==
    /\ Truthy(title)
    /\ status \in TaskStatusEnum
    /\ due # NaNDate

NewTask(title, due, status, fid, u) ==
    [title |-> title, dueDate |-> due, status |-> status, folder |-> fid, user |-> u]

\* Folder.create({name, user}): tasks defaults to the empty array
NewFolder(name, u) == [name |-> name, user |-> u, tasks |-> <<>>]

\* mutant: the new id is pushed onto folder.tasks twice
PushTask_Twice(F, fid, tid) ==
    IF fid \in DOMAIN F
    THEN [F EXCEPT ![fid].tasks = Append(Append(@, tid), tid)]
    ELSE F

\* { $push: { tasks: id } } on the folder with that _id (no owner in the filter)
PushTask(F, fid, tid) ==
    IF fid \in DOMAIN F
    THEN [F EXCEPT ![fid].tasks = Append(@, tid)]
    ELSE F

\* { $pull: { tasks: id } } on the folder with that _id (no owner in the filter)
PullTask(F, fid, tid) ==
    IF fid \in DOMAIN F
    THEN [F EXCEPT ![fid].tasks = Pull(@, tid)]
    ELSE F

\* ----------------------------------------------------- taskController.js
\* Each handler is a function of the store, the request and pc, the storage
\* call the handler is at ("start": the request has just arrived).

\* mutant: the Task is inserted before the folder reference is looked up
createTaskOrFolder_WriteFirst(T, F, n, u, b, pc, new) ==
    LET due == IF Truthy(b.dueDate) THEN DateParse(b.dueDate) ELSE NullDate
        st == IF Truthy(b.status) THEN b.status ELSE "Pending"
        fid == IF TruthyId(b.folder) THEN b.folder ELSE NullId
    IN IF pc = "push" THEN Res(T, PushTask(F, b.folder, new), n, 201)
       ELSE IF pc = "create"
       THEN IF ~FolderOwned(F, b.folder, u) THEN Res(T, F, n, 400)
            ELSE Await(T, F, n, "push", new)
       ELSE IF ~Truthy(b.title) \/ ~Truthy(b.type) THEN Res(T, F, n, 400)
       ELSE IF b.type = "folder"
       THEN Res(T, Insert(F, n, NewFolder(b.title, u)), n + 1, 201)
       ELSE IF Truthy(b.status) /\ b.status \notin AllowedStatus THEN Res(T, F, n, 400)
       ELSE IF Truthy(b.dueDate) /\ DateParse(b.dueDate) = NaNDate THEN Res(T, F, n, 400)
       ELSE IF TruthyId(b.folder) /\ ~isValidObjectId(b.folder) THEN Res(T, F, n, 400)
       ELSE IF ~TaskCreateValid(b.title, due, st) THEN Res(T, F, n, 500)
       ELSE IF TruthyId(b.folder)
       THEN Await(Insert(T, n, NewTask(b.title, due, st, fid, u)), F, n + 1, "create", n)
       ELSE Res(Insert(T, n, NewTask(b.title, due, st, fid, u)), F, n + 1, 201)

\* start: the guards, then Folder.create, or Folder.findOne({ _id, user }) when
\* the body names a folder, or else Task.create; create: Task.create;
\* push: Folder.findByIdAndUpdate(folder, { $push: { tasks } })
createTaskOrFolder(T, F, n, u, b, pc, new) ==
    LET due == IF Truthy(b.dueDate) THEN DateParse(b.dueDate) ELSE NullDate
        st == IF Truthy(b.status) THEN b.status ELSE "Pending"
        fid == IF TruthyId(b.folder) THEN b.folder ELSE NullId
    IN IF pc = "push" THEN Res(T, PushTask(F, b.folder, new), n, 201)
       ELSE IF pc = "create"
       THEN IF ~TaskCreateValid(b.title, due, st) THEN Res(T, F, n, 500)
            ELSE Await(Insert(T, n, NewTask(b.title, due, st, fid, u)), F, n + 1, "push", n)
       ELSE IF ~Truthy(b.title) \/ ~Truthy(b.type) THEN Res(T, F, n, 400)
       ELSE IF b.type = "folder"
       THEN Res(T, Insert(F, n, NewFolder(b.title, u)), n + 1, 201)
       ELSE IF Truthy(b.status) /\ b.status \notin AllowedStatus THEN Res(T, F, n, 400)
       ELSE IF Truthy(b.dueDate) /\ DateParse(b.dueDate) = NaNDate THEN Res(T, F, n, 400)
       ELSE IF TruthyId(b.folder)
       THEN IF ~isValidObjectId(b.folder) THEN Res(T, F, n, 400)
            ELSE IF ~FolderOwned(F, b.folder, u) THEN Res(T, F, n, 400)
            ELSE Await(T, F, n, "create", UndefId)
       ELSE IF ~TaskCreateValid(b.title, due, st) THEN Res(T, F, n, 500)
       ELSE Res(Insert(T, n, NewTask(b.title, due, st, fid, u)), F, n + 1, 201)

\* mutant: the lookups filter by _id alone
getTaskById_NoOwnerFilter(T, F, n, u, id, pc) ==
    IF pc = "folder"
    THEN IF id \in DOMAIN F THEN Res(T, F, n, 200) ELSE Res(T, F, n, 404)
    ELSE IF ~isValidObjectId(id) THEN Res(T, F, n, 500)
    ELSE IF id \in DOMAIN T THEN Res(T, F, n, 200)
    ELSE Await(T, F, n, "folder", UndefId)

\* start: Task.findOne({ _id, user }); folder: Folder.findOne({ _id, user })
getTaskById(T, F, n, u, id, pc) ==
    IF pc = "folder"
    THEN IF FolderOwned(F, id, u) THEN Res(T, F, n, 200) ELSE Res(T, F, n, 404)
    ELSE IF ~isValidObjectId(id) THEN Res(T, F, n, 500)
    ELSE IF TaskOwned(T, id, u) THEN Res(T, F, n, 200)
    ELSE Await(T, F, n, "folder", UndefId)

\* Task.find({ user, folder }): the ids of the tasks found, in natural order
\* (the sort key createdAt is no path of the schema)
getTasksByFolder(T, u, fid) ==
    IF ~isValidObjectId(fid) THEN [code |-> 500, list |-> <<>>]
    ELSE [code |-> 200, list |-> SortedSeq(TasksOfFolder(T, fid, u))]

\* the update document built from the request body
UpdateData(b) ==
    [title |-> b.title, status |-> b.status]

\* runValidators: the validators of the paths the update sets
UpdateValid(d) ==
    /\ d.title # Undef => Truthy(d.title)
    /\ d.status # Undef => d.status \in TaskStatusEnum

\* mutant: a field the patch leaves out falls back to the schema default
ApplyUpdate_DefaultStatus(t, d) ==
    [t EXCEPT !.title = IF d.title # Undef THEN d.title ELSE @,
              !.status = IF d.status # Undef THEN d.status ELSE "Pending"]

ApplyUpdate(t, d) ==
    [t EXCEPT !.title = IF d.title # Undef THEN d.title ELSE @,
              !.status = IF d.status # Undef THEN d.status ELSE @]


\* start: the guards, then Task.findOneAndUpdate({ _id, user }, updateData,
\* { runValidators }); folder: Folder.findOneAndUpdate({ _id, user }, ...)
updateTaskStatus(T, F, n, u, id, b, pc) ==
    IF pc = "folder"
    THEN IF FolderOwned(F, id, u)
         THEN Res(T, IF Truthy(b.title) THEN [F EXCEPT ![id].name = b.title] ELSE F,
                  n, 200)
         ELSE Res(T, F, n, 404)
    ELSE IF b.status # Undef /\ b.status \notin AllowedStatus THEN Res(T, F, n, 400)
    ELSE IF b.title = Undef /\ b.status = Undef THEN Res(T, F, n, 400)
    ELSE IF ~isValidObjectId(id) \/ ~UpdateValid(UpdateData(b)) THEN Res(T, F, n, 500)
    ELSE IF TaskOwned(T, id, u)
    THEN Res([T EXCEPT ![id] = ApplyUpdate(@, UpdateData(b))], F, n, 200)
    ELSE Await(T, F, n, "folder", UndefId)

\* mutant: the typed task delete answers success without checking what it deleted
deleteTaskOrFolder_NoNotFound(T, F, n, u, type, tid, id0, pc) ==
    LET shift == id0 = UndefId /\ type = "oid" /\ isValidObjectId(tid)
        id == IF shift THEN tid ELSE id0
        ty == IF shift THEN Undef ELSE type
    IN IF pc = "tasks" THEN Res(Remove(T, TasksOfFolder(T, id, u)), F, n, 200)
       ELSE IF pc = "folder"
       THEN IF ty = "folder"
            THEN IF FolderOwned(F, id, u) THEN Res(T, Remove(F, {id}), n, 200)
                 ELSE Res(T, F, n, 404)
            ELSE IF FolderOwned(F, id, u)
            THEN Await(T, Remove(F, {id}), n, "tasks", UndefId)
            ELSE Res(T, F, n, 404)
       ELSE IF id = UndefId THEN Res(T, F, n, 400)
       ELSE IF ~isValidObjectId(id) THEN Res(T, F, n, 500)
       ELSE IF ty = "task"
       THEN IF TaskOwned(T, id, u) THEN Res(Remove(T, {id}), F, n, 200)
            ELSE Res(T, F, n, 200)
       ELSE IF ty = "folder"
       THEN Await(Remove(T, TasksOfFolder(T, id, u)), F, n, "folder", UndefId)
       ELSE IF TaskOwned(T, id, u) THEN Res(Remove(T, {id}), F, n, 200)
       ELSE Await(T, F, n, "folder", UndefId)

\* mutant: the untyped folder delete leaves the folder's Tasks in place
deleteTaskOrFolder_NoCascade(T, F, n, u, type, tid, id0, pc) ==
    LET shift == id0 = UndefId /\ type = "oid" /\ isValidObjectId(tid)
        id == IF shift THEN tid ELSE id0
        ty == IF shift THEN Undef ELSE type
    IN IF pc = "tasks" THEN Res(T, F, n, 200)
       ELSE IF pc = "folder"
       THEN IF ty = "folder"
            THEN IF FolderOwned(F, id, u) THEN Res(T, Remove(F, {id}), n, 200)
                 ELSE Res(T, F, n, 404)
            ELSE IF FolderOwned(F, id, u)
            THEN Await(T, Remove(F, {id}), n, "tasks", UndefId)
            ELSE Res(T, F, n, 404)
       ELSE IF id = UndefId THEN Res(T, F, n, 400)
       ELSE IF ~isValidObjectId(id) THEN Res(T, F, n, 500)
       ELSE IF ty = "task"
       THEN IF TaskOwned(T, id, u) THEN Res(Remove(T, {id}), F, n, 200)
            ELSE Res(T, F, n, 404)
       ELSE IF ty = "folder"
       THEN Await(Remove(T, TasksOfFolder(T, id, u)), F, n, "folder", UndefId)
       ELSE IF TaskOwned(T, id, u) THEN Res(Remove(T, {id}), F, n, 200)
       ELSE Await(T, F, n, "folder", UndefId)

\* mutant: the typed folder delete looks the folder up before it deletes Tasks
deleteTaskOrFolder_LookupFirst(T, F, n, u, type, tid, id0, pc) ==
    LET shift == id0 = UndefId /\ type = "oid" /\ isValidObjectId(tid)
        id == IF shift THEN tid ELSE id0
        ty == IF shift THEN Undef ELSE type
    IN IF pc = "tasks" THEN Res(Remove(T, TasksOfFolder(T, id, u)), F, n, 200)
       ELSE IF pc = "folder"
       THEN IF ty = "folder"
            THEN Res(Remove(T, TasksOfFolder(T, id, u)),
                     IF FolderOwned(F, id, u) THEN Remove(F, {id}) ELSE F, n, 200)
            ELSE IF FolderOwned(F, id, u)
            THEN Await(T, Remove(F, {id}), n, "tasks", UndefId)
            ELSE Res(T, F, n, 404)
       ELSE IF id = UndefId THEN Res(T, F, n, 400)
       ELSE IF ~isValidObjectId(id) THEN Res(T, F, n, 500)
       ELSE IF ty = "task"
       THEN IF TaskOwned(T, id, u) THEN Res(Remove(T, {id}), F, n, 200)
            ELSE Res(T, F, n, 404)
       ELSE IF ty = "folder"
       THEN IF FolderOwned(F, id, u) THEN Await(T, F, n, "folder", UndefId)
            ELSE Res(T, F, n, 404)
       ELSE IF TaskOwned(T, id, u) THEN Res(Remove(T, {id}), F, n, 200)
       ELSE Await(T, F, n, "folder", UndefId)

\* mutant: the typed folder delete removes the folder's Tasks of every owner
deleteTaskOrFolder_TypedAllOwners(T, F, n, u, type, tid, id0, pc) ==
    LET shift == id0 = UndefId /\ type = "oid" /\ isValidObjectId(tid)
        id == IF shift THEN tid ELSE id0
        ty == IF shift THEN Undef ELSE type
    IN IF pc = "tasks" THEN Res(Remove(T, TasksOfFolder(T, id, u)), F, n, 200)
       ELSE IF pc = "folder"
       THEN IF ty = "folder"
            THEN IF FolderOwned(F, id, u) THEN Res(T, Remove(F, {id}), n, 200)
                 ELSE Res(T, F, n, 404)
            ELSE IF FolderOwned(F, id, u)
            THEN Await(T, Remove(F, {id}), n, "tasks", UndefId)
            ELSE Res(T, F, n, 404)
       ELSE IF id = UndefId THEN Res(T, F, n, 400)
       ELSE IF ~isValidObjectId(id) THEN Res(T, F, n, 500)
       ELSE IF ty = "task"
       THEN IF TaskOwned(T, id, u) THEN Res(Remove(T, {id}), F, n, 200)
            ELSE Res(T, F, n, 404)
       ELSE IF ty = "folder"
       THEN Await(Remove(T, {t \in DOMAIN T : T[t].folder = id}), F, n, "folder", UndefId)
       ELSE IF TaskOwned(T, id, u) THEN Res(Remove(T, {id}), F, n, 200)
       ELSE Await(T, F, n, "folder", UndefId)

\* req.params of the two delete routes: type is a string; when the type segment
\* holds an ObjectId its value is tid; id = UndefId when the route has no :id.
\* start: type task: Task.findOneAndDelete; type folder: Task.deleteMany; no
\* type: Task.findOneAndDelete. folder: Folder.findOneAndDelete. tasks: the
\* Task.deleteMany of the untyped folder delete
deleteTaskOrFolder(T, F, n, u, type, tid, id0, pc) ==
    LET shift == id0 = UndefId /\ type = "oid" /\ isValidObjectId(tid)
        id == IF shift THEN tid ELSE id0
        ty == IF shift THEN Undef ELSE type
    IN IF pc = "tasks" THEN Res(Remove(T, TasksOfFolder(T, id, u)), F, n, 200)
       ELSE IF pc = "folder"
       THEN IF ty = "folder"
            THEN IF FolderOwned(F, id, u) THEN Res(T, Remove(F, {id}), n, 200)
                 ELSE Res(T, F, n, 404)
            ELSE IF FolderOwned(F, id, u)
            THEN Await(T, Remove(F, {id}), n, "tasks", UndefId)
            ELSE Res(T, F, n, 404)
       ELSE IF id = UndefId THEN Res(T, F, n, 400)
       ELSE IF ~isValidObjectId(id) THEN Res(T, F, n, 500)
       ELSE IF ty = "task"
       THEN IF TaskOwned(T, id, u) THEN Res(Remove(T, {id}), F, n, 200)
            ELSE Res(T, F, n, 404)
       ELSE IF ty = "folder"
       THEN Await(Remove(T, TasksOfFolder(T, id, u)), F, n, "folder", UndefId)
       ELSE IF TaskOwned(T, id, u) THEN Res(Remove(T, {id}), F, n, 200)
       ELSE Await(T, F, n, "folder", UndefId)

\* --------------------------------------------------- folderController.js
createFolder(T, F, n, u, b) ==
    IF ~Truthy(b.name) THEN Res(T, F, n, 400)
    ELSE Res(T, Insert(F, n, NewFolder(b.name, u)), n + 1, 201)

getFolderById(F, u, id) ==
    IF ~isValidId(id) THEN 400
    ELSE IF FolderOwned(F, id, u) THEN 200
    ELSE 404


\* mutant: the Task is created but its id is never pushed onto folder.tasks
addTaskToFolder_NoPush(T, F, n, u, fid, b, pc, new) ==
    LET due == IF Truthy(b.dueDate) THEN DateParse(b.dueDate) ELSE NullDate
    IN IF pc = "save" THEN {Res(T, F, n, 201)}
       ELSE IF pc = "create"
       THEN IF ~TaskCreateValid(b.title, due, "Pending") THEN {Res(T, F, n, 500)}
            ELSE {Await(Insert(T, n, NewTask(b.title, due, "Pending", fid, u)),
                        F, n + 1, "save", n)}
       ELSE IF ~isValidId(fid) THEN {Res(T, F, n, 400)}
       ELSE IF ~FolderOwned(F, fid, u) THEN {Res(T, F, n, 404)}
       ELSE {Await(T, F, n, "create", UndefId)}

\* start: Folder.findOne({ _id, user }); create: Task.create; save:
\* folder.tasks.push(task._id), folder.save(). The outcomes of a step are a set:
\* a save of a document that has been deleted writes nothing, and throws or
\* not depending on the Mongoose release
addTaskToFolder(T, F, n, u, fid, b, pc, new) ==
    LET due == IF Truthy(b.dueDate) THEN DateParse(b.dueDate) ELSE NullDate
    IN IF pc = "save"
       THEN IF fid \in DOMAIN F THEN {Res(T, PushTask(F, fid, new), n, 201)}
            ELSE {Res(T, F, n, 201), Res(T, F, n, 500)}
       ELSE IF pc = "create"
       THEN IF ~TaskCreateValid(b.title, due, "Pending") THEN {Res(T, F, n, 500)}
            ELSE {Await(Insert(T, n, NewTask(b.title, due, "Pending", fid, u)),
                        F, n + 1, "save", n)}
       ELSE IF ~isValidId(fid) THEN {Res(T, F, n, 400)}
       ELSE IF ~FolderOwned(F, fid, u) THEN {Res(T, F, n, 404)}
       ELSE {Await(T, F, n, "create", UndefId)}

\* the update Mongoose casts from req.body: the schema's paths, no validators
CastOk(b) ==
    /\ b.dueDate # Undef => DateParse(b.dueDate) # NaNDate
    /\ b.folder # UndefId /\ b.folder # NullId => isValidObjectId(b.folder)

ApplyBody(t, b) ==
    [title |-> IF b.title # Undef THEN b.title ELSE t.title,
     dueDate |-> IF b.dueDate # Undef THEN DateParse(b.dueDate) ELSE t.dueDate,
     status |-> IF b.status # Undef THEN b.status ELSE t.status,
     folder |-> IF b.folder # UndefId THEN b.folder ELSE t.folder,
     user |-> IF b.user # Undef THEN b.user ELSE t.user]

updateTaskInFolder(T, F, n, u, fid, tid, b) ==
    IF ~isValidId(fid) \/ ~isValidId(tid) THEN Res(T, F, n, 400)
    ELSE IF ~CastOk(b) THEN Res(T, F, n, 400)
    ELSE IF ~TaskInFolder(T, tid, fid, u) THEN Res(T, F, n, 404)
    ELSE Res([T EXCEPT ![tid] = ApplyBody(@, b)], F, n, 200)

folderUpdateTaskStatus(T, F, n, u, fid, tid, b) ==
    IF ~isValidId(fid) \/ ~isValidId(tid) THEN Res(T, F, n, 400)
    ELSE IF ~TaskInFolder(T, tid, fid, u) THEN Res(T, F, n, 404)
    ELSE Res([T EXCEPT ![tid].status = b.status], F, n, 200)

\* start: Task.findOneAndDelete({ _id, folder, user }); pull:
\* Folder.updateOne({ _id }, { $pull: { tasks } })
deleteTaskInFolder(T, F, n, u, fid, tid, pc) ==
    IF pc = "pull" THEN Res(T, PullTask(F, fid, tid), n, 200)
    ELSE IF ~isValidId(fid) \/ ~isValidId(tid) THEN Res(T, F, n, 400)
    ELSE IF ~TaskInFolder(T, tid, fid, u) THEN Res(T, F, n, 404)
    ELSE Await(Remove(T, {tid}), F, n, "pull", UndefId)

\* mutant: the updateMany filter has lost its folder condition
resetProgress_AllFolders(T, F, n, u, id) ==
    IF ~isValidId(id) THEN Res(T, F, n, 400)
    ELSE Res([t \in DOMAIN T |->
                 IF T[t].user = u
                 THEN [T[t] EXCEPT !.status = "Pending"] ELSE T[t]],
             F, n, 200)

resetProgress(T, F, n, u, id) ==
    IF ~isValidId(id) THEN Res(T, F, n, 400)
    ELSE Res([t \in DOMAIN T |->
                 IF T[t].folder = id /\ T[t].user = u
                 THEN [T[t] EXCEPT !.status = "Pending"] ELSE T[t]],
             F, n, 200)

\* mutant: the Tasks are deleted and the folder's list is left as it was
clearProgress_KeepsRefs(T, F, n, u, id, pc) ==
    IF pc = "refs" THEN Res(T, F, n, 200)
    ELSE IF ~isValidId(id) THEN Res(T, F, n, 400)
    ELSE Await(Remove(T, TasksOfFolder(T, id, u)), F, n, "refs", UndefId)

\* start: Task.deleteMany({ folder, user }); refs:
\* Folder.findByIdAndUpdate(id, { tasks: [] }), no owner in the filter
clearProgress(T, F, n, u, id, pc) ==
    IF pc = "refs"
    THEN Res(T, IF id \in DOMAIN F THEN [F EXCEPT ![id].tasks = <<>>] ELSE F, n, 200)
    ELSE IF ~isValidId(id) THEN Res(T, F, n, 400)
    ELSE Await(Remove(T, TasksOfFolder(T, id, u)), F, n, "refs", UndefId)


\* ------------------------------------------------------------ request sets
\* ids a client can send: malformed, well-formed but unknown, or handed out before
IdArgs(n) == {BadId, NoSuchId} \cup (1 .. (n - 1))
\* :folderId and :taskId of the folder routes
IdPairs(n) ==
    {p \in (0 .. (n - 1)) \X (0 .. (n - 1)) : p[1] # p[2]}
    \cup {<<BadId, NoSuchId>>, <<NoSuchId, BadId>>}

CreateBodies(n) ==
    {Body(ty, ti, Undef, Undef, UndefId, Undef, Undef) :
        ty \in {"folder", Undef}, ti \in {"a", Undef}}
    \cup {Body("task", "a", st, Undef, UndefId, Undef, Undef) :
        st \in {"Pending", "Working", "Completed", "done"}}
    \cup {Body("task", "a", st, Undef, fo, Undef, Undef) :
        st \in {Undef, "Completed"}, fo \in {UndefId} \cup IdArgs(n)}
    \cup {Body("task", ti, Undef, du, UndefId, Undef, Undef) :
        ti \in {"a", Undef}, du \in {"2025-01-01", "not-a-date"}}

FolderBodies == {[EmptyBody EXCEPT !.name = na] : na \in {"a", Undef}}

AddTaskBodies ==
    {[EmptyBody EXCEPT !.title = ti, !.dueDate = du] :
        ti \in {"a", Undef}, du \in {Undef, "2025-01-01"}}
    \cup {[EmptyBody EXCEPT !.title = "a", !.dueDate = "not-a-date"]}

UpdateBodies ==
    {[EmptyBody EXCEPT !.title = ti, !.status = st] :
        ti \in {Undef, "b"},
        st \in {Undef, "Pending", "Working", "Completed", "done"}}

\* arbitrary JSON for PATCH /folders/:folderId/tasks/:taskId, one path at a time
PatchBodies(n) ==
    {EmptyBody, [EmptyBody EXCEPT !.title = "b"]}
    \cup {[EmptyBody EXCEPT !.status = st] : st \in {"Completed", "done"}}
    \cup {[EmptyBody EXCEPT !.dueDate = du] : du \in {"2025-01-01", "not-a-date"}}
    \cup {[EmptyBody EXCEPT !.folder = fo] : fo \in {NullId} \cup IdArgs(n)}
    \cup {[EmptyBody EXCEPT !.user = us] : us \in Users}

StatusBodies ==
    {[EmptyBody EXCEPT !.status = st] : st \in {"Working", "Completed", "done"}}

\* req.params of DELETE /:type/:id and of DELETE /:id: both routes bind id, the
\* second leaves type undefined
DeleteParams(n) ==
    {[type |-> ty, tid |-> UndefId, id |-> id] :
        ty \in {"task", "folder", "note", Undef}, id \in IdArgs(n)}


\* ----------------------------------------------------------------- actions
\* a request: the route's handler, req.user, req.params, req.body; pc is the
\* storage call its handler is at, new the _id of the Task it has created; code
\* and list are the response; alone: no other request was in flight between
\* its arrival and its response
NoRequest ==
    [op |-> "none", user |-> Undef, type |-> Undef, tid |-> UndefId, id |-> UndefId,
     id2 |-> UndefId, body |-> EmptyBody, code |-> 0, list |-> <<>>,
     pc |-> "start", new |-> UndefId, alone |-> TRUE]

Request(op, u, type, tid, id, id2, b) ==
    [NoRequest EXCEPT !.op = op, !.user = u, !.type = type, !.tid = tid,
                      !.id = id, !.id2 = id2, !.body = b]

\* no request is in flight
NoProcs ==
    [c |-> [kind |-> "none", pc |-> "idle", tid |-> UndefId, code |-> 0],
     d |-> [type |-> "none", pc |-> "idle", code |-> 0],
     fid |-> UndefId, user |-> Undef, overlap |-> FALSE]

Init ==
    /\ procs = NoProcs
    /\ tasks = EmptyColl
    /\ folders = EmptyColl
    /\ nextId = 1
    /\ nops = 0
    /\ inflight = EmptyBag
    /\ last = NoRequest
    /\ tasks0 = EmptyColl
    /\ folders0 = EmptyColl

\* the response of the last request answered has been sent
Idle == last.op = "none"

\* a request that shares the server with another one: the store it arrived at
\* is not kept
Interfered(e) ==
    [e EXCEPT !.req.alone = FALSE, !.t0 = EmptyColl, !.f0 = EmptyColl]

\* the requests a handler can take its next step for: the ones of its route in
\* flight, and, while the run has requests left, the ones arriving (with the
\* store they arrive at)
Entries(op, arriving) ==
    {e \in BagToSet(inflight) : e.req.op = op}
    \cup IF nops < MaxOps /\ inflight = EmptyBag
         THEN {[req |-> q, t0 |-> tasks, f0 |-> folders] : q \in arriving}
         ELSE IF nops < MaxOps /\ BagCardinality(inflight) < MaxInFlight
         THEN {Interfered([req |-> q, t0 |-> tasks, f0 |-> folders]) : q \in arriving}
         ELSE {}

\* one step r of the handler of request e: the store is written; the request is
\* answered (r.pc = "done") or stays in flight, awaiting its next storage call.
\* Of the answer to a request that did not run alone the route and the status
\* are kept
Serve(e, r, list) ==
    LET rest == IF e.req.pc = "start" THEN inflight ELSE inflight (-) SetToBag({e})
        others == BagOfAll(Interfered, rest)
        q == [e.req EXCEPT !.pc = r.pc, !.new = r.new, !.code = r.code, !.list = list]
    IN /\ r.n <= MaxId + 1
       /\ tasks' = r.t
       /\ folders' = r.f
       /\ nextId' = r.n
       /\ nops' = IF e.req.pc = "start" THEN nops + 1 ELSE nops
       /\ IF r.pc = "done"
          THEN /\ last' = IF q.alone THEN q
                          ELSE [NoRequest EXCEPT !.op = q.op, !.code = q.code,
                                                 !.alone = FALSE]
               /\ tasks0' = e.t0
               /\ folders0' = e.f0
               /\ inflight' = others
          ELSE /\ inflight' = others (+) SetToBag({[e EXCEPT !.req = q]})
               /\ UNCHANGED <<last, tasks0, folders0>>
       /\ UNCHANGED procs

CreateTaskOrFolder ==
    /\ Idle
    /\ \E e \in Entries("createTaskOrFolder",
                        {Request("createTaskOrFolder", u, Undef, UndefId, UndefId, UndefId, b) :
                            u \in Users, b \in CreateBodies(nextId)}) :
          LET q == e.req
          IN \E r \in {createTaskOrFolder(tasks, folders, nextId, q.user, q.body, q.pc, q.new)} :
                Serve(e, r, <<>>)

GetTaskById ==
    /\ Idle
    /\ \E e \in Entries("getTaskById",
                        {Request("getTaskById", u, Undef, UndefId, id, UndefId, EmptyBody) :
                            u \in Users, id \in IdArgs(nextId)}) :
          LET q == e.req
          IN \E r \in {getTaskById(tasks, folders, nextId, q.user, q.id, q.pc)} :
                Serve(e, r, <<>>)

GetTasksByFolder ==
    /\ Idle
    /\ \E e \in Entries("getTasksByFolder",
                        {Request("getTasksByFolder", u, Undef, UndefId, id, UndefId, EmptyBody) :
                            u \in Users, id \in IdArgs(nextId)}) :
          LET q == e.req
          IN \E r \in {Res(tasks, folders, nextId, getTasksByFolder(tasks, q.user, q.id).code)} :
                Serve(e, r, getTasksByFolder(tasks, q.user, q.id).list)

UpdateTaskStatus ==
    /\ Idle
    /\ \E e \in Entries("updateTaskStatus",
                        {Request("updateTaskStatus", u, Undef, UndefId, id, UndefId, b) :
                            u \in Users, id \in IdArgs(nextId), b \in UpdateBodies}) :
          LET q == e.req
          IN \E r \in {updateTaskStatus(tasks, folders, nextId, q.user, q.id, q.body, q.pc)} :
                Serve(e, r, <<>>)

DeleteTaskOrFolder ==
    /\ Idle
    /\ \E e \in Entries("deleteTaskOrFolder",
                        {Request("deleteTaskOrFolder", u, p.type, p.tid, p.id, UndefId, EmptyBody) :
                            u \in Users, p \in DeleteParams(nextId)}) :
          LET q == e.req
          IN \E r \in {deleteTaskOrFolder(tasks, folders, nextId, q.user, q.type, q.tid, q.id, q.pc)} :
                Serve(e, r, <<>>)

CreateFolder ==
    /\ Idle
    /\ \E e \in Entries("createFolder",
                        {Request("createFolder", u, Undef, UndefId, UndefId, UndefId, b) :
                            u \in Users, b \in FolderBodies}) :
          LET q == e.req
          IN \E r \in {createFolder(tasks, folders, nextId, q.user, q.body)} :
                Serve(e, r, <<>>)

GetFolderById ==
    /\ Idle
    /\ \E e \in Entries("getFolderById",
                        {Request("getFolderById", u, Undef, UndefId, id, UndefId, EmptyBody) :
                            u \in Users, id \in IdArgs(nextId)}) :
          LET q == e.req
          IN \E r \in {Res(tasks, folders, nextId, getFolderById(folders, q.user, q.id))} :
                Serve(e, r, <<>>)

AddTaskToFolder ==
    /\ Idle
    /\ \E e \in Entries("addTaskToFolder",
                        {Request("addTaskToFolder", u, Undef, UndefId, id, UndefId, b) :
                            u \in Users, id \in IdArgs(nextId), b \in AddTaskBodies}) :
          LET q == e.req
          IN \E r \in addTaskToFolder(tasks, folders, nextId, q.user, q.id, q.body, q.pc, q.new) :
                Serve(e, r, <<>>)

UpdateTaskInFolder ==
    /\ Idle
    /\ \E e \in Entries("updateTaskInFolder",
                        {Request("updateTaskInFolder", u, Undef, UndefId, p[1], p[2], b) :
                            u \in Users, p \in IdPairs(nextId), b \in PatchBodies(nextId)}) :
          LET q == e.req
          IN \E r \in {updateTaskInFolder(tasks, folders, nextId, q.user, q.id, q.id2, q.body)} :
                Serve(e, r, <<>>)

FolderUpdateTaskStatus ==
    /\ Idle
    /\ \E e \in Entries("folderUpdateTaskStatus",
                        {Request("folderUpdateTaskStatus", u, Undef, UndefId, p[1], p[2], b) :
                            u \in Users, p \in IdPairs(nextId), b \in StatusBodies}) :
          LET q == e.req
          IN \E r \in {folderUpdateTaskStatus(tasks, folders, nextId, q.user, q.id, q.id2, q.body)} :
                Serve(e, r, <<>>)

DeleteTaskInFolder ==
    /\ Idle
    /\ \E e \in Entries("deleteTaskInFolder",
                        {Request("deleteTaskInFolder", u, Undef, UndefId, p[1], p[2], EmptyBody) :
                            u \in Users, p \in IdPairs(nextId)}) :
          LET q == e.req
          IN \E r \in {deleteTaskInFolder(tasks, folders, nextId, q.user, q.id, q.id2, q.pc)} :
                Serve(e, r, <<>>)

ResetProgress ==
    /\ Idle
    /\ \E e \in Entries("resetProgress",
                        {Request("resetProgress", u, Undef, UndefId, id, UndefId, EmptyBody) :
                            u \in Users, id \in IdArgs(nextId)}) :
          LET q == e.req
          IN \E r \in {resetProgress(tasks, folders, nextId, q.user, q.id)} :
                Serve(e, r, <<>>)

ClearProgress ==
    /\ Idle
    /\ \E e \in Entries("clearProgress",
                        {Request("clearProgress", u, Undef, UndefId, id, UndefId, EmptyBody) :
                            u \in Users, id \in IdArgs(nextId)}) :
          LET q == e.req
          IN \E r \in {clearProgress(tasks, folders, nextId, q.user, q.id, q.pc)} :
                Serve(e, r, <<>>)

\* the response of the last request is sent
Finish ==
    /\ last.op # "none"
    /\ last' = NoRequest
    /\ tasks0' = EmptyColl
    /\ folders0' = EmptyColl
    /\ UNCHANGED <<tasks, folders, nextId, nops, inflight, procs>>

Next ==
    \/ Finish
    \/ CreateTaskOrFolder
    \/ GetTaskById
    \/ GetTasksByFolder
    \/ UpdateTaskStatus
    \/ DeleteTaskOrFolder
    \/ CreateFolder
    \/ GetFolderById
    \/ AddTaskToFolder
    \/ UpdateTaskInFolder
    \/ FolderUpdateTaskStatus
    \/ DeleteTaskInFolder
    \/ ResetProgress
    \/ ClearProgress

Spec == Init /\ [][Next]_vars

\* ------------------------------------------- interleaved storage operations
\* One task creation into folder procs.fid and one deleteById of that folder, by
\* the same user, each advancing one awaited storage call at a time.
Running(p) == p.pc \notin {"idle", "done"}

\* the store after POST /folders, optionally followed by POST /folders/:id/tasks
InitConc ==
    /\ \E u \in Users, withTask \in BOOLEAN :
        LET F1 == Insert(EmptyColl, 1, NewFolder("a", u))
            T2 == Insert(EmptyColl, 2, NewTask("a", NullDate, "Pending", 1, u))
        IN /\ tasks = IF withTask THEN T2 ELSE EmptyColl
           /\ folders = IF withTask THEN PushTask(F1, 1, 2) ELSE F1
           /\ nextId = IF withTask THEN 3 ELSE 2
           /\ procs = [NoProcs EXCEPT !.fid = 1, !.user = u]
    /\ nops = 0
    /\ inflight = EmptyBag
    /\ last = NoRequest
    /\ tasks0 = EmptyColl
    /\ folders0 = EmptyColl

\* a step of the creating request; it overlaps a delete that is under way
CreatorStep(c) ==
    /\ procs' = [procs EXCEPT !.c = c, !.overlap = @ \/ Running(procs.d)]
    /\ UNCHANGED <<nops, inflight, last, tasks0, folders0>>

\* a step of the deleting request; it overlaps a creation that is under way
DeleterStep(d) ==
    /\ procs' = [procs EXCEPT !.d = d, !.overlap = @ \/ Running(procs.c)]
    /\ UNCHANGED <<nops, inflight, last, tasks0, folders0>>

\* mutant: the creating request does not look the folder up
CreateFindFolder_NoCheck ==
    /\ procs.c.pc = "idle"
    /\ \E kind \in {"createTaskOrFolder", "addTaskToFolder"} :
          CreatorStep([procs.c EXCEPT !.kind = kind, !.pc = "create"])
    /\ UNCHANGED <<tasks, folders, nextId>>

\* Folder.findOne({ _id, user }) of createTaskOrFolder and of addTaskToFolder
CreateFindFolder ==
    /\ procs.c.pc = "idle"
    /\ \E kind \in {"createTaskOrFolder", "addTaskToFolder"} :
          IF FolderOwned(folders, procs.fid, procs.user)
          THEN CreatorStep([procs.c EXCEPT !.kind = kind, !.pc = "create"])
          ELSE CreatorStep([procs.c EXCEPT !.kind = kind, !.pc = "done",
                 !.code = IF kind = "createTaskOrFolder" THEN 400 ELSE 404])
    /\ UNCHANGED <<tasks, folders, nextId>>

\* Task.create({ title, dueDate, status, folder, user })
CreateTask ==
    /\ procs.c.pc = "create"
    /\ tasks' = Insert(tasks, nextId,
                       NewTask("a", NullDate, "Pending", procs.fid, procs.user))
    /\ nextId' = nextId + 1
    /\ CreatorStep([procs.c EXCEPT !.tid = nextId, !.pc = "push"])
    /\ UNCHANGED folders

\* Folder.findByIdAndUpdate(folder, { $push: { tasks: newTask._id } })
CreatePush ==
    /\ procs.c.pc = "push"
    /\ procs.c.kind = "createTaskOrFolder"
    /\ folders' = PushTask(folders, procs.fid, procs.c.tid)
    /\ CreatorStep([procs.c EXCEPT !.pc = "done", !.code = 201])
    /\ UNCHANGED <<tasks, nextId>>

\* folder.tasks.push(task._id); folder.save(): when the document is gone the
\* save writes nothing, and throws or not depending on the Mongoose release
FolderSave ==
    /\ procs.c.pc = "push"
    /\ procs.c.kind = "addTaskToFolder"
    /\ folders' = PushTask(folders, procs.fid, procs.c.tid)
    /\ \E code \in IF procs.fid \in DOMAIN folders THEN {201} ELSE {201, 500} :
          CreatorStep([procs.c EXCEPT !.pc = "done", !.code = code])
    /\ UNCHANGED <<tasks, nextId>>

\* type === "folder": Task.deleteMany({ folder: id, user })
DeleteTypedTasks ==
    /\ procs.d.pc = "idle"
    /\ tasks' = Remove(tasks, TasksOfFolder(tasks, procs.fid, procs.user))
    /\ DeleterStep([procs.d EXCEPT !.type = "folder", !.pc = "folder"])
    /\ UNCHANGED <<folders, nextId>>

\* type === "folder": Folder.findOneAndDelete({ _id, user })
DeleteTypedFolder ==
    /\ procs.d.pc = "folder"
    /\ procs.d.type = "folder"
    /\ folders' = IF FolderOwned(folders, procs.fid, procs.user)
                  THEN Remove(folders, {procs.fid}) ELSE folders
    /\ DeleterStep([procs.d EXCEPT !.pc = "done",
          !.code = IF FolderOwned(folders, procs.fid, procs.user) THEN 200 ELSE 404])
    /\ UNCHANGED <<tasks, nextId>>

\* no type: Task.findOneAndDelete({ _id, user })
DeleteUntypedTask ==
    /\ procs.d.pc = "idle"
    /\ IF TaskOwned(tasks, procs.fid, procs.user)
       THEN /\ tasks' = Remove(tasks, {procs.fid})
            /\ DeleterStep([procs.d EXCEPT !.type = Undef, !.pc = "done", !.code = 200])
       ELSE /\ tasks' = tasks
            /\ DeleterStep([procs.d EXCEPT !.type = Undef, !.pc = "folder"])
    /\ UNCHANGED <<folders, nextId>>

\* no type: Folder.findOneAndDelete({ _id, user })
DeleteUntypedFolder ==
    /\ procs.d.pc = "folder"
    /\ procs.d.type = Undef
    /\ IF FolderOwned(folders, procs.fid, procs.user)
       THEN /\ folders' = Remove(folders, {procs.fid})
            /\ DeleterStep([procs.d EXCEPT !.pc = "tasks"])
       ELSE /\ folders' = folders
            /\ DeleterStep([procs.d EXCEPT !.pc = "done", !.code = 404])
    /\ UNCHANGED <<tasks, nextId>>

\* no type: Task.deleteMany({ folder: id, user })
DeleteUntypedTasks ==
    /\ procs.d.pc = "tasks"
    /\ tasks' = Remove(tasks, TasksOfFolder(tasks, procs.fid, procs.user))
    /\ DeleterStep([procs.d EXCEPT !.pc = "done", !.code = 200])
    /\ UNCHANGED <<folders, nextId>>

NextConc ==
    \/ CreateFindFolder
    \/ CreateTask
    \/ CreatePush
    \/ FolderSave
    \/ DeleteTypedTasks
    \/ DeleteTypedFolder
    \/ DeleteUntypedTask
    \/ DeleteUntypedFolder
    \/ DeleteUntypedTasks

SpecConc == InitConc /\ [][NextConc]_vars


\* ------------------------------------------------------------- properties
\* The properties of one operation are stated for a request that ran alone: no
\* other request took a step between its arrival and its response. tasks0 and
\* folders0 are the store such a request arrived at.
Responded == last.op # "none" /\ last.alone
Served(op) == last.op = op /\ last.alone

\* a handler run from its first storage call to its response on store (T, F)
getTaskByIdAlone(T, F, u, id) ==
    LET r == getTaskById(T, F, 0, u, id, "start")
    IN IF r.pc = "done" THEN r.code ELSE getTaskById(T, F, 0, u, id, r.pc).code

updateTaskStatusAlone(T, F, n, u, id, b) ==
    LET r == updateTaskStatus(T, F, n, u, id, b, "start")
    IN IF r.pc = "done" THEN r ELSE updateTaskStatus(r.t, r.f, r.n, u, id, b, r.pc)

deleteTaskOrFolderAlone(T, F, n, u, type, tid, id0) ==
    LET r1 == deleteTaskOrFolder(T, F, n, u, type, tid, id0, "start")
        r2 == IF r1.pc = "done" THEN r1
              ELSE deleteTaskOrFolder(r1.t, r1.f, r1.n, u, type, tid, id0, r1.pc)
    IN IF r2.pc = "done" THEN r2
       ELSE deleteTaskOrFolder(r2.t, r2.f, r2.n, u, type, tid, id0, r2.pc)

\* the id a delete request ends up using (deleteTaskOrFolder's parameter shift)
DeleteTarget == IF last.id = UndefId THEN last.tid ELSE last.id

\* the id the last getById / updateById / deleteById request named
TargetId == IF last.op = "deleteTaskOrFolder" THEN DeleteTarget ELSE last.id

\* the id names a record of the store before the request, owned by someone else
ForeignTarget ==
    \/ TargetId \in DOMAIN tasks0 /\ tasks0[TargetId].user # last.user
    \/ TargetId \in DOMAIN folders0 /\ folders0[TargetId].user # last.user

\* the status the same request gets when its id is well formed and names nothing
AbsentCode ==
    IF last.op = "getTaskById"
    THEN getTaskByIdAlone(tasks0, folders0, last.user, NoSuchId)
    ELSE IF last.op = "updateTaskStatus"
    THEN updateTaskStatusAlone(tasks0, folders0, nextId, last.user, NoSuchId,
                               last.body).code
    ELSE deleteTaskOrFolderAlone(tasks0, folders0, nextId, last.user, last.type,
                                 IF last.id = UndefId THEN NoSuchId ELSE last.tid,
                                 IF last.id = UndefId THEN UndefId ELSE NoSuchId).code

\* every Task of T whose folder is non-null references a Folder of F with the
\* Task's owner
FolderRefOwned(T, F) ==
    \A t \in DOMAIN T :
        T[t].folder # NullId =>
            /\ T[t].folder \in DOMAIN F
            /\ F[T[t].folder].user = T[t].user

\* C1: every stored Task whose folder is non-null references an existing Folder
\* with the same owner as the Task: the store is empty at first, and a request
\* that runs alone on a store where this holds leaves a store where it holds.
C1_FolderRefOwned ==
    (Responded /\ FolderRefOwned(tasks0, folders0)) => FolderRefOwned(tasks, folders)

\* every id in the task list of a Folder of F references a Task of T in that
\* folder, with the Folder's owner
TaskRefsValid(T, F) ==
    \A f \in DOMAIN F :
        \A i \in 1 .. Len(F[f].tasks) :
            LET t == F[f].tasks[i]
            IN /\ t \in DOMAIN T
               /\ T[t].folder = f
               /\ T[t].user = F[f].user

\* C2: every id in a Folder's taskRefs references an existing Task whose folder is
\* that Folder and whose owner is the Folder's owner: the store is empty at
\* first, and a request that runs alone on a store where this holds leaves a
\* store where it holds.
C2_TaskRefsValid ==
    (Responded /\ TaskRefsValid(tasks0, folders0)) => TaskRefsValid(tasks, folders)

\* C3: getById, updateById and deleteById on a record of another user answer
\* exactly as on an id that names no record: NotFoundError (404) once the request
\* body is accepted, never a success and never a distinct forbidden status.
C3_ForeignAsAbsent ==
    (/\ Responded
     /\ last.op \in {"getTaskById", "updateTaskStatus", "deleteTaskOrFolder"}
     /\ ForeignTarget) =>
        /\ last.code = AbsentCode
        /\ last.code \notin {200, 201, 401, 403}
        /\ last.op # "updateTaskStatus" => last.code = 404
        /\ last.code # 404 => last.code \in {400, 500}

C3_Witness ==
    /\ Served("updateTaskStatus")
    /\ last.body.status = "Completed"
    /\ last.id \in DOMAIN tasks0
    /\ tasks0[last.id].user # last.user
    /\ last.code = 404
    /\ tasks = tasks0

\* C4: a request of user U leaves every Task and Folder that another user owned
\* before the request exactly as it was (taskRefs included).
C4_OthersUntouched ==
    Responded =>
        /\ \A t \in DOMAIN tasks0 :
              tasks0[t].user # last.user => t \in DOMAIN tasks /\ tasks[t] = tasks0[t]
        /\ \A f \in DOMAIN folders0 :
              folders0[f].user # last.user =>
                  f \in DOMAIN folders /\ folders[f] = folders0[f]

\* C5: createEntity of a task with a folder reference that is no Folder of the
\* caller fails with a client error and writes nothing.
C5_CreateChecksFolder ==
    (/\ Served("createTaskOrFolder")
     /\ last.body.type = "task"
     /\ TruthyId(last.body.folder)
     /\ ~FolderOwned(folders0, last.body.folder, last.user)) =>
        /\ last.code \in {400, 404}
        /\ tasks = tasks0
        /\ folders = folders0

C5_Witness ==
    /\ Served("createTaskOrFolder")
    /\ last.body.type = "task"
    /\ last.body.title = "a"
    /\ last.body.folder \in DOMAIN folders0
    /\ folders0[last.body.folder].user # last.user
    /\ folders0[last.body.folder].tasks # <<>>
    /\ last.code = 400
    /\ tasks = tasks0
    /\ folders = folders0

\* the Tasks the last request inserted
Created == DOMAIN tasks \ DOMAIN tasks0

\* a createEntity request for a task that is valid apart from its status
CreateTaskRequest ==
    /\ Served("createTaskOrFolder")
    /\ last.body.type = "task"
    /\ Truthy(last.body.title)
    /\ Truthy(last.body.dueDate) => DateParse(last.body.dueDate) # NaNDate
    /\ TruthyId(last.body.folder) => FolderOwned(folders0, last.body.folder, last.user)

\* C6: a Task created with status omitted is stored Pending; createEntity with a
\* status outside {Pending, Working, Completed} is rejected and creates nothing;
\* with a status inside that set it succeeds and stores the status given.
C6_CreateStatus ==
    /\ (Served("addTaskToFolder") /\ last.code = 201) =>
           /\ Cardinality(Created) = 1
           /\ \A t \in Created : tasks[t].status = "Pending"
    /\ CreateTaskRequest =>
           IF last.body.status = Undef
           THEN /\ last.code = 201
                /\ Cardinality(Created) = 1
                /\ \A t \in Created : tasks[t].status = "Pending"
           ELSE IF last.body.status \notin AllowedStatus
           THEN last.code = 400 /\ tasks = tasks0
           ELSE /\ last.code = 201
                /\ Cardinality(Created) = 1
                /\ \A t \in Created : tasks[t].status = last.body.status

\* C7: every stored Task's status is one of Pending, Working, Completed.
C7_StatusEnumerated ==
    \A t \in DOMAIN tasks : tasks[t].status \in AllowedStatus

\* C8: after a successful deleteById of folder F by its owner, F is gone, no Task
\* with folder = F remains, and getById by the owner answers NotFoundError for F
\* and for every Task that was in F.
C8_FolderDeleteCascades ==
    (/\ Served("deleteTaskOrFolder")
     /\ last.code = 200
     /\ FolderOwned(folders0, DeleteTarget, last.user)) =>
        /\ DeleteTarget \notin DOMAIN folders
        /\ \A t \in DOMAIN tasks : tasks[t].folder # DeleteTarget
        /\ getTaskByIdAlone(tasks, folders, last.user, DeleteTarget) = 404
        /\ \A t \in DOMAIN tasks0 :
              tasks0[t].folder = DeleteTarget =>
                  getTaskByIdAlone(tasks, folders, last.user, t) = 404

\* C9: resetProgress(folderId) sets the status of every Task of the caller in that
\* folder to Pending and changes nothing else: not the folders (taskRefs), not the
\* set of Tasks, not another field of those Tasks, not a Task outside the folder.
C9_ResetFrame ==
    (Served("resetProgress") /\ last.code = 200) =>
        /\ folders = folders0
        /\ DOMAIN tasks = DOMAIN tasks0
        /\ \A t \in DOMAIN tasks0 :
              IF tasks0[t].folder = last.id /\ tasks0[t].user = last.user
              THEN tasks[t] = [tasks0[t] EXCEPT !.status = "Pending"]
              ELSE tasks[t] = tasks0[t]

C9_Witness ==
    /\ Served("resetProgress")
    /\ last.code = 200
    /\ FolderOwned(folders0, last.id, last.user)
    /\ folders[last.id].tasks # <<>>
    /\ \E t \in DOMAIN tasks0 :
          /\ tasks0[t].folder = last.id
          /\ tasks0[t].user = last.user
          /\ tasks0[t].status = "Completed"
          /\ tasks[t].status = "Pending"
    /\ \E t \in DOMAIN tasks0 :
          tasks0[t].folder # last.id /\ tasks0[t].status # "Pending"

\* C10: after clearProgress(folderId) by the folder's owner no Task of the owner
\* is in the folder, the folder exists with empty taskRefs, listByFolder is
\* empty, and every Task outside the folder is unchanged.
C10_ClearProgress ==
    (/\ Served("clearProgress")
     /\ last.code = 200
     /\ FolderOwned(folders0, last.id, last.user)) =>
        /\ \A t \in DOMAIN tasks :
              ~(tasks[t].folder = last.id /\ tasks[t].user = last.user)
        /\ last.id \in DOMAIN folders
        /\ folders[last.id] = [folders0[last.id] EXCEPT !.tasks = <<>>]
        /\ getTasksByFolder(tasks, last.user, last.id) = [code |-> 200, list |-> <<>>]
        /\ \A t \in DOMAIN tasks0 :
              tasks0[t].folder # last.id => t \in DOMAIN tasks /\ tasks[t] = tasks0[t]

C10_Witness ==
    /\ Served("clearProgress")
    /\ last.code = 200
    /\ FolderOwned(folders0, last.id, last.user)
    /\ folders0[last.id].tasks # <<>>
    /\ \E t \in DOMAIN tasks0 : tasks0[t].folder = last.id /\ t \notin DOMAIN tasks
    /\ \E t \in DOMAIN tasks0 : tasks0[t].folder # last.id

\* the last request was a deleteById with a well-formed id
DeleteRequest == Served("deleteTaskOrFolder") /\ isValidObjectId(DeleteTarget)

\* the same deleteById request, served once more on the present store
DeleteAgain ==
    deleteTaskOrFolderAlone(tasks, folders, nextId, last.user, last.type, last.tid, last.id)

\* the type hint of the delete request fits the record its id names (no hint fits both)
HintFitsRecord ==
    \/ last.type = "task" /\ TaskOwned(tasks0, DeleteTarget, last.user)
    \/ last.type = "folder" /\ FolderOwned(folders0, DeleteTarget, last.user)
    \/ /\ last.type \notin {"task", "folder"}
       /\ \/ TaskOwned(tasks0, DeleteTarget, last.user)
          \/ FolderOwned(folders0, DeleteTarget, last.user)

\* C11 (as stated): for every record of the caller and every call shape, deleteById
\* succeeds the first time, and the same call again answers NotFoundError and
\* leaves the store unchanged.
C11_DeleteTwiceAnyShape ==
    (/\ DeleteRequest
     /\ last.type \in {"task", "folder", Undef}
     /\ \/ TaskOwned(tasks0, DeleteTarget, last.user)
        \/ FolderOwned(folders0, DeleteTarget, last.user)) =>
        /\ last.code = 200
        /\ DeleteAgain.code = 404
        /\ DeleteAgain.t = tasks
        /\ DeleteAgain.f = folders

\* C11 (amended): for every record of the caller and every call shape whose type
\* hint fits the record's kind (or that has no hint), deleteById succeeds the first
\* time, and the same call again answers NotFoundError and leaves the store
\* unchanged.
C11_DeleteTwice ==
    (DeleteRequest /\ HintFitsRecord) =>
        /\ last.code = 200
        /\ DeleteAgain.code = 404
        /\ DeleteAgain.t = tasks
        /\ DeleteAgain.f = folders

C11_Witness ==
    /\ DeleteRequest
    /\ last.type = "folder"
    /\ FolderOwned(folders0, last.id, last.user)
    /\ TasksOfFolder(tasks0, last.id, last.user) # {}
    /\ last.code = 200
    /\ DeleteAgain.code = 404
    /\ DeleteAgain.t = tasks

\* C12: a record that exists before and after a request has the same owner.
C12_OwnerImmutable ==
    Responded =>
        /\ \A t \in DOMAIN tasks0 \cap DOMAIN tasks : tasks[t].user = tasks0[t].user
        /\ \A f \in DOMAIN folders0 \cap DOMAIN folders :
              folders[f].user = folders0[f].user

\* C13: resetProgress and clearProgress answer NotFoundError when the id names no
\* Folder of the caller, and the confirmation only when the caller owns the folder.
C13_ProgressNotFound ==
    (/\ Responded
     /\ last.op \in {"resetProgress", "clearProgress"}
     /\ isValidId(last.id)) =>
        IF FolderOwned(folders0, last.id, last.user)
        THEN last.code = 200
        ELSE last.code = 404

\* the last request was an updateById with a well-formed id
UpdateRequest == Served("updateTaskStatus") /\ isValidObjectId(last.id)

\* the caller's Tasks that referenced folder id before the last request
CallerTasksIn(id) ==
    {t \in DOMAIN tasks0 : tasks0[t].folder = id /\ tasks0[t].user = last.user}

\* the Task store is the one before the request without the Tasks in S
TasksWithout(S) ==
    /\ DOMAIN tasks = DOMAIN tasks0 \ S
    /\ \A t \in DOMAIN tasks : tasks[t] = tasks0[t]

\* C14: updateById on a Task of the caller changes only the fields the patch
\* carries, among title and status; a field the patch leaves out keeps its value;
\* dueDate, folder and owner never change, no other Task changes; when no Task
\* with that id and owner exists the Task store is unchanged.
C14_UpdateFrame ==
    Served("updateTaskStatus") =>
        IF isValidObjectId(last.id) /\ TaskOwned(tasks0, last.id, last.user)
        THEN /\ DOMAIN tasks = DOMAIN tasks0
             /\ \A t \in DOMAIN tasks0 \ {last.id} : tasks[t] = tasks0[t]
             /\ tasks[last.id].dueDate = tasks0[last.id].dueDate
             /\ tasks[last.id].folder = tasks0[last.id].folder
             /\ tasks[last.id].user = tasks0[last.id].user
             /\ last.body.title = Undef => tasks[last.id].title = tasks0[last.id].title
             /\ last.body.status = Undef =>
                    tasks[last.id].status = tasks0[last.id].status
             /\ (last.code = 200 /\ last.body.title # Undef) =>
                    tasks[last.id].title = last.body.title
             /\ (last.code = 200 /\ last.body.status # Undef) =>
                    tasks[last.id].status = last.body.status
             /\ last.code # 200 => tasks = tasks0
        ELSE tasks = tasks0

C14_Witness ==
    /\ UpdateRequest
    /\ TaskOwned(tasks0, last.id, last.user)
    /\ last.code = 200
    /\ last.body.status = Undef
    /\ tasks0[last.id].status = "Completed"
    /\ tasks[last.id].status = "Completed"
    /\ tasks[last.id].title = "b"
    /\ tasks0[last.id].title = "a"

\* C15: an updateById whose patch passes validation and whose id matches no Task
\* of the caller renames the caller's Folder with that id to patch.title and
\* changes nothing else, status being ignored; when nothing was updated (no such
\* Folder, or a patch without title) the result is NotFoundError and the store is
\* unchanged.
C15_FolderFallback ==
    (/\ UpdateRequest
     /\ ~TaskOwned(tasks0, last.id, last.user)
     /\ last.body.status \in AllowedStatus \cup {Undef}
     /\ last.body.title # Undef \/ last.body.status # Undef) =>
        /\ tasks = tasks0
        /\ IF FolderOwned(folders0, last.id, last.user) /\ last.body.title # Undef
           THEN /\ last.code = 200
                /\ folders = [folders0 EXCEPT ![last.id].name = last.body.title]
           ELSE /\ last.code = 404
                /\ folders = folders0

\* C16: deleteById without a type hint deletes the caller's Task with that id and
\* nothing else; only if no Task matched, the caller's Folder with that id and
\* every Task of the caller that references it; when neither matched it answers
\* NotFoundError and the store is unchanged.
C16_UntypedDelete ==
    (DeleteRequest /\ last.type = Undef) =>
        IF TaskOwned(tasks0, last.id, last.user)
        THEN /\ last.code = 200
             /\ TasksWithout({last.id})
             /\ folders = folders0
        ELSE IF FolderOwned(folders0, last.id, last.user)
        THEN /\ last.code = 200
             /\ TasksWithout(CallerTasksIn(last.id))
             /\ DOMAIN folders = DOMAIN folders0 \ {last.id}
             /\ \A f \in DOMAIN folders : folders[f] = folders0[f]
        ELSE /\ last.code = 404
             /\ tasks = tasks0
             /\ folders = folders0

C16_Witness ==
    /\ DeleteRequest
    /\ last.type = Undef
    /\ FolderOwned(folders0, last.id, last.user)
    /\ CallerTasksIn(last.id) # {}
    /\ last.code = 200
    /\ last.id \notin DOMAIN folders
    /\ CallerTasksIn(last.id) \cap DOMAIN tasks = {}

\* C17: deleteById with type hint folder on an id that names no Folder of the
\* caller answers NotFoundError and has removed the caller's Tasks that reference
\* the id; without a type hint the same situation removes no Task.
C17_TypedFolderDeletesFirst ==
    (/\ DeleteRequest
     /\ ~FolderOwned(folders0, last.id, last.user)) =>
        /\ last.type = "folder" =>
              /\ last.code = 404
              /\ TasksWithout(CallerTasksIn(last.id))
              /\ folders = folders0
        /\ (last.type = Undef /\ ~TaskOwned(tasks0, last.id, last.user)) =>
              /\ last.code = 404
              /\ tasks = tasks0
              /\ folders = folders0

C17_Witness ==
    /\ DeleteRequest
    /\ last.type = "folder"
    /\ ~FolderOwned(folders0, last.id, last.user)
    /\ CallerTasksIn(last.id) # {}
    /\ last.code = 404
    /\ CallerTasksIn(last.id) \cap DOMAIN tasks = {}

\* C18: whatever the status of a Task, updateById by its owner with status
\* Pending, Working or Completed succeeds and the Task then has that status.
C18_AnyTransition ==
    (/\ UpdateRequest
     /\ TaskOwned(tasks0, last.id, last.user)
     /\ last.body.status \in AllowedStatus) =>
        /\ last.code = 200
        /\ tasks[last.id].status = last.body.status

\* C19: folder.addTask on a folder of the caller creates exactly one Task, with
\* folder that id, owner the caller and status Pending, and appends its id as the
\* last element of the folder's task list, the earlier elements staying; on a
\* folder that is absent or not the caller's it answers NotFoundError and writes
\* nothing.
C19_AddTask ==
    (Served("addTaskToFolder") /\ isValidId(last.id)) =>
        IF FolderOwned(folders0, last.id, last.user)
        THEN /\ (Truthy(last.body.title) /\ last.body.dueDate \in {Undef, "2025-01-01"})
                   => last.code = 201
             /\ last.code # 201 => (tasks = tasks0 /\ folders = folders0)
             /\ last.code = 201 =>
                   \E new \in DOMAIN tasks \ DOMAIN tasks0 :
                       /\ DOMAIN tasks = DOMAIN tasks0 \cup {new}
                       /\ \A t \in DOMAIN tasks0 : tasks[t] = tasks0[t]
                       /\ tasks[new].folder = last.id
                       /\ tasks[new].user = last.user
                       /\ tasks[new].status = "Pending"
                       /\ folders = [folders0 EXCEPT
                                        ![last.id].tasks = Append(@, new)]
        ELSE /\ last.code = 404
             /\ tasks = tasks0
             /\ folders = folders0

C19_Witness ==
    /\ Served("addTaskToFolder")
    /\ FolderOwned(folders0, last.id, last.user)
    /\ last.code = 201
    /\ Len(folders0[last.id].tasks) >= 1
    /\ Len(folders[last.id].tasks) = Len(folders0[last.id].tasks) + 1
    /\ folders[last.id].tasks[Len(folders[last.id].tasks)] \in
           DOMAIN tasks \ DOMAIN tasks0

\* both interleaved requests have answered
BothDone == procs.c.pc = "done" /\ procs.d.pc = "done"

\* a Task references folder procs.fid, which no longer exists
OrphanTask ==
    /\ procs.fid \notin DOMAIN folders
    /\ \E t \in DOMAIN tasks : tasks[t].folder = procs.fid

\* the folder exists and its task list is not the set of Tasks that name it
RefsDisagree ==
    /\ procs.fid \in DOMAIN folders
    /\ {folders[procs.fid].tasks[i] : i \in 1..Len(folders[procs.fid].tasks)}
          # {t \in DOMAIN tasks : tasks[t].folder = procs.fid}

\* C20: a task creation into folder F and a deleteById of F by the same user
\* leave a Task that references the deleted F, or a task list that disagrees
\* with the Tasks' folder fields, only when their storage calls interleave (the
\* interleaved final state is C20_Witness): run one after the other, in either
\* order, they end in a consistent store.
C20_OnlyInterleavingBreaks ==
    (BothDone /\ ~procs.overlap) => (~OrphanTask /\ ~RefsDisagree)

C20_Witness ==
    /\ BothDone
    /\ procs.overlap
    /\ procs.c.code = 201
    /\ procs.d.code = 200
    /\ OrphanTask

\* the delete request just served, with the other of the two call shapes (type
\* hint folder, no type hint), served on the store before the request
DeleteOtherShape ==
    deleteTaskOrFolderAlone(tasks0, folders0, nextId, last.user,
                            IF last.type = "folder" THEN Undef ELSE "folder",
                            last.tid, last.id)

\* C21: on the id of a Folder of the caller, deleteById with type hint folder and
\* deleteById without a type hint, each run to completion from the same state,
\* both answer success and end in the same store.
C21_TypedUntypedAgree ==
    (/\ DeleteRequest
     /\ last.type \in {"folder", Undef}
     /\ FolderOwned(folders0, last.id, last.user)) =>
        /\ last.code = 200
        /\ DeleteOtherShape.code = 200
        /\ DeleteOtherShape.t = tasks
        /\ DeleteOtherShape.f = folders

C21_Witness ==
    /\ DeleteRequest
    /\ last.type = "folder"
    /\ FolderOwned(folders0, last.id, last.user)
    /\ CallerTasksIn(last.id) # {}
    /\ \E t \in DOMAIN tasks : tasks[t].user # last.user
    /\ last.code = 200
    /\ DeleteOtherShape.code = 200
    /\ DeleteOtherShape.t = tasks
    /\ DeleteOtherShape.f = folders
    /\ tasks # tasks0

\* C22: no Folder's task list holds the same Task id twice, and no Task id is in
\* the task lists of two different Folders.
C22_TaskRefsUnique ==
    /\ \A f \in DOMAIN folders :
          \A i, j \in 1..Len(folders[f].tasks) :
              folders[f].tasks[i] = folders[f].tasks[j] => i = j
    /\ \A f, g \in DOMAIN folders :
          f # g => \A i \in 1..Len(folders[f].tasks), j \in 1..Len(folders[g].tasks) :
                       folders[f].tasks[i] # folders[g].tasks[j]

C22_Witness ==
    /\ Responded
    /\ last.op \in {"createTaskOrFolder", "addTaskToFolder"}
    /\ last.code = 201
    /\ \E f \in DOMAIN folders :
          /\ Len(folders[f].tasks) = 2
          /\ Len(folders0[f].tasks) = 1
          /\ folders[f].tasks[1] # folders[f].tasks[2]
====
